---- MODULE Spec2Model ----
(***************************************************************************)
(* Model of the streaming core of the Gemini terminal chat client          *)
(* (src/main.go): the bubbletea model's Update handlers, the producer      *)
(* goroutine started by keyEnter, the unbuffered parts channel and the     *)
(* readPart commands run by the bubbletea runtime.                         *)
(*                                                                         *)
(* Strings are sequences of one-character strings; Go slice indices are    *)
(* kept 0-based as in the source and shifted by one when a TLA+ sequence   *)
(* is accessed.                                                            *)
(***************************************************************************)
EXTENDS Integers, Sequences, FiniteSets

\* ------------------------------------------------------------ bounds
\* number of Submit (enter key) events of a run
MaxSubmits == 3
\* number of chunks the remote streams of a run yield, over all prompts
MaxChunks == 3

\* number of times the user types a prompt into the textarea
MaxTyped == 1
\* the same two bounds for the runs in which the other events of the event
\* loop (window size, viewport keys, errMsg, escape) happen as well
MaxSubmitsEvents == 2
MaxChunksEvents == 2

Streams == 1..MaxSubmits

\* ------------------------------------------------------------ strings
RECURSIVE Concat(_)
\* strings.Join(ss, "") / repeated +=
Concat(ss) == IF ss = <<>> THEN <<>> ELSE Head(ss) \o Concat(Tail(ss))

IsPrefix(a, b) == Len(a) <= Len(b) /\ SubSeq(b, 1, Len(a)) = a

\* the prompts the user can type into the textarea
Prompts == { <<>>, <<"2", "+", "2", "?">> }

\* the texts a response chunk can carry
Texts == { <<"H", "i">>, <<" ", "t", "h", "e", "r", "e">> }

\* the message of a transport error yielded by the stream iterator
ErrText == <<"E", "O", "F">>

\* ------------------------------------------------------------ styling
\* lipgloss colours of the two styles (initialModel)
promptStyle == "4"
chatStyle == "2"

\* lipgloss Style.Render with a foreground colour: SGR colour sequence, the
\* string, SGR reset (the escape sequences are one token each)
SGR(style) == IF style = "4" THEN "ESC[34m" ELSE "ESC[32m"
Render(style, str) == <<SGR(style)>> \o str \o <<"ESC[0m">>

IsEscape(c) == c \in { "ESC[34m", "ESC[32m", "ESC[0m" }

\* what the terminal shows of a rendered string: the escape sequences removed
Visible(str) == SelectSeq(str, LAMBDA c : ~IsEscape(c))

\* the prefix keyEnter puts before a prompt, and streamMsg before a reply
UserPrefix == Render(chatStyle, <<"?", " ">>)
AssistantPrefix == Render(chatStyle, <<">", " ">>)

\* ------------------------------------------------------------ viewport
\* const GAP = "\n\n"
GAP == <<"\n", "\n">>

\* strings.Join(m.display, "\n")
RECURSIVE Join(_)
Join(ss) ==
  IF ss = <<>> THEN <<>>
  ELSE IF Len(ss) = 1 THEN ss[1]
  ELSE ss[1] \o <<"\n">> \o Join(Tail(ss))

\* a call by value: the argument is evaluated once, before the call
Apply(Op(_), v) == CHOOSE r \in { Op(x) : x \in {v} } : TRUE

\* strings.Split(str, "\n"): the lines of a string (one empty line for "")
RECURSIVE Split(_)
Split(str) ==
  IF \A j \in 1..Len(str) : str[j] # "\n" THEN <<str>>
  ELSE LET first == CHOOSE j \in 1..Len(str) :
                      str[j] = "\n" /\ \A i \in 1..(j - 1) : str[i] # "\n"
       IN <<SubSeq(str, 1, first - 1)>>
            \o Apply(Split, SubSeq(str, first + 1, Len(str)))

\* lipgloss.Height: the number of lines of a string
LineCount(str) == Len(Split(str))

\* the cells a string takes on the terminal (escape sequences take none)
Cells(str) == Len(Visible(str))

\* the wrapped line the j-th token of a line falls on, at w cells a line
WrapRow(w, line, j) ==
  LET cells == Cardinality({ i \in 1..j : ~IsEscape(line[i]) })
  IN IF cells = 0 THEN 1 ELSE ((cells - 1) \div w) + 1

\* a line broken into lines of at most w cells
WrapLine(w, line) ==
  IF w <= 0 \/ Cells(line) <= w THEN <<line>>
  ELSE [k \in 1..WrapRow(w, line, Len(line)) |->
          LET row == SelectSeq([j \in 1..Len(line) |-> <<line[j], WrapRow(w, line, j)>>],
                               LAMBDA x : x[2] = k)
          IN [j \in 1..Len(row) |-> row[j][1]]]

\* a rendered line: its text and the number of spaces that fill it up to the
\* width (the trailing spaces are kept as a count)
Pad(w, line) == [text |-> line, pad |-> IF w > Cells(line) THEN w - Cells(line) ELSE 0]

\* lipgloss.NewStyle().Width(w).Render(str), as the lines viewport.SetContent
\* keeps of it: every line is wrapped at w cells and short lines are filled
\* with spaces up to w (the library breaks at a word boundary when the line has
\* one; the sizes used here wrap no line)
RenderWidth(w, str) ==
  LET WrapAll(lines) == Concat([j \in 1..Len(lines) |-> WrapLine(w, lines[j])])
      PadAll(all) == [j \in 1..Len(all) |-> Pad(w, all[j])]
  IN Apply(PadAll, Apply(WrapAll, Apply(Split, str)))

\* viewport: the largest YOffset, max(0, len(lines) - Height)
MaxYOffset(content, height) ==
  IF Len(content) > height THEN Len(content) - height ELSE 0

\* a viewport that goes to the top
GotoTop(content, height) == 0

\* viewport.GotoBottom
GotoBottom(content, height) == MaxYOffset(content, height)

\* viewport.New(40, 5) and ta.SetWidth(40), ta.SetHeight(2)
InitWidth == 40
InitHeight == 5
TextareaWidth == 40
TextareaHeight == 2

\* the terminal sizes a tea.WindowSizeMsg can carry
Sizes == { [width |-> 30, height |-> 7] }

\* the values of the GOOGLE_CLI environment variable
Keys == { <<>>, <<"k", "e", "y">> }

\* ------------------------------------------------------------ chunks
\* what one iteration of `for chunk, _ := range stream` can receive
TextChunk(t) == [kind |-> "text", text |-> t]
NilChunk == [kind |-> "nil", text |-> <<>>]
NoCandidates == [kind |-> "nocand", text |-> <<>>]
ErrChunk == [kind |-> "err", text |-> ErrText]

Chunks == { TextChunk(t) : t \in Texts } \cup { NilChunk, NoCandidates, ErrChunk }

VARIABLES
  display,    \* m.display: the transcript, a sequence of rendered strings
  origin,     \* history variable: per transcript entry, the (stream, k) of every fragment appended to it
  history,    \* m.history: the messages of the chat
  textarea,   \* m.textarea.Value()
  next,       \* m.next: 0 = nil, s = the readPart closure made by the s-th keyEnter
  nstreams,   \* number of keyEnter calls so far (channels made)
  index,      \* index captured by the s-th keyEnter (0-based)
  readers,    \* number of readPart commands blocked in <-parts of stream s
  msgs,       \* streamMsg values returned by readPart and not yet handled by Update
  ppc,        \* position of the producer goroutine of stream s
  part,       \* the part the producer of stream s is sending
  chunks,     \* history variable: the chunks the remote stream of s has yielded
  sent,       \* history variable: the parts received from the channel of s, in order
  status,     \* "running", or "crashed" after an unrecovered panic
  overlap,    \* history variable: some keyEnter happened while an earlier stream was unfinished
  sawClosed,  \* history variable: a readPart of the current stream returned nil since the last keyEnter
  typed,      \* history variable: number of KeyRunes events so far
  queue,      \* the parts buffered in the channel of stream s
  env,        \* os.Getenv(GOOGLE_CLI)
  chat,       \* m.chat: TRUE once the chat session is created
  err,        \* m.err: "nil" or the error
  errSeen,    \* history variable: an errMsg has been handled
  vpWidth,    \* m.viewport.Width
  vpHeight,   \* m.viewport.Height
  vpYOffset,  \* m.viewport.YOffset
  vpContent,  \* the lines of the content set on the viewport
  taWidth,    \* the width set on the textarea
  scenario    \* the events of the run: "streams" (prompts and fragments) or "events" (all)

vars == << display, origin, history, textarea, next, nstreams, index, readers,
           msgs, ppc, part, chunks, sent, status, overlap, sawClosed, typed,
           queue, env, chat, err, errSeen, vpWidth, vpHeight, vpYOffset,
           vpContent, taWidth, scenario >>

\* the viewport and textarea geometry and content
uiVars == << vpWidth, vpHeight, vpYOffset, vpContent, taWidth >>

\* the process environment, the chat session and the error state
procVars == << env, chat, err, errSeen, scenario >>

\* the bounds of the run
SubmitBound == IF scenario = "streams" THEN MaxSubmits ELSE MaxSubmitsEvents
ChunkBound == IF scenario = "streams" THEN MaxChunks ELSE MaxChunksEvents

\* ------------------------------------------------------------ helpers
\* number of readPart commands issued and not yet returned, over all channels
RECURSIVE SumReaders(_)
SumReaders(S) ==
  IF S = {} THEN 0
  ELSE LET s == CHOOSE x \in S : TRUE IN readers[s] + SumReaders(S \ {s})

Outstanding == SumReaders(Streams)

\* number of chunks the remote streams have yielded so far
RECURSIVE SumChunks(_)
SumChunks(S) ==
  IF S = {} THEN 0
  ELSE LET s == CHOOSE x \in S : TRUE IN Len(chunks[s]) + SumChunks(S \ {s})

Yielded == SumChunks(Streams)

Started(s) == s <= nstreams
Closed(s) == ppc[s] = "done"

\* nothing of any stream is in progress: producers finished, no read pending,
\* no streamMsg waiting for Update
Quiescent ==
  /\ \A s \in Streams : Started(s) => Closed(s)
  /\ Outstanding = 0
  /\ msgs = {}

\* ------------------------------------------------------------ state
Init ==
  /\ display = <<>>
  /\ origin = <<>>
  /\ history = <<>>
  /\ textarea = <<>>
  /\ next = 0
  /\ nstreams = 0
  /\ index = [s \in Streams |-> 0]
  /\ readers = [s \in Streams |-> 0]
  /\ msgs = {}
  /\ ppc = [s \in Streams |-> "none"]
  /\ part = [s \in Streams |-> <<>>]
  /\ chunks = [s \in Streams |-> <<>>]
  /\ sent = [s \in Streams |-> <<>>]
  /\ status = "init"
  /\ overlap = FALSE
  /\ sawClosed = FALSE
  /\ typed = 0
  /\ queue = [s \in Streams |-> <<>>]
  /\ env \in Keys
  /\ chat = FALSE
  /\ err = "nil"
  /\ errSeen = FALSE
  /\ vpWidth = InitWidth
  /\ vpHeight = InitHeight
  /\ vpYOffset = 0
  /\ vpContent = <<>>
  /\ taWidth = TextareaWidth
  /\ scenario \in { "streams", "events" }

\* ------------------------------------------------------------ startup
\* a start that does not look at the key
MissingKeyIgnored(k) == FALSE

\* initialModel: `if GEMINI_API_KEY == ""`
MissingKey(k) == k = <<>>

\* the exit code of the process in status st (-1: it has not exited)
ExitCode(st) ==
  IF st = "quit" THEN 0
  ELSE IF st = "fatal" THEN 1
  ELSE IF st = "crashed" THEN 2
  ELSE -1

\* main: open the log file (os.Exit(1) when that fails), initialModel
\* (log.Fatal when the key is missing), then tea.NewProgram(m).Run()
Main(logOk) ==
  /\ status = "init"
  /\ IF ~logOk \/ MissingKey(env)
     THEN status' = "fatal" /\ UNCHANGED chat
     ELSE status' = "running" /\ chat' = TRUE
  /\ UNCHANGED << display, origin, history, textarea, next, nstreams, index,
                  readers, msgs, ppc, part, chunks, sent, overlap, sawClosed,
                  typed, queue, env, err, errSeen, scenario, uiVars >>

\* ------------------------------------------------------------ event loop
\* Update, tea.KeyMsg with runes: m.textarea.Update(msg) edits the input buffer
KeyRunes(p) ==
  /\ status = "running"
  /\ typed < MaxTyped
  /\ textarea # p
  /\ textarea' = p
  /\ typed' = typed + 1
  /\ UNCHANGED << display, origin, history, next, nstreams, index, readers, msgs,
                  ppc, part, chunks, sent, status, overlap, sawClosed,
                  queue, procVars, uiVars >>

\* a capture made before the user entry is appended
CaptureIndexBeforeAppend(d) == Len(d) - 1

\* a capture one past the next index
CaptureIndexPastNext(d) == Len(d) + 1

\* the index keyEnter captures: len(m.display) after the user entry is appended
CaptureIndex(d) == Len(d)

\* keyEnter: append the user message and entry, capture the index, make the
\* channel, start the producer goroutine, reset the textarea, set m.next and
\* return it as the command (one readPart starts on the new channel)
KeyEnter ==
  /\ status = "running"
  /\ nstreams < SubmitBound
  /\ LET s == nstreams + 1
         prompt == textarea
         d == Append(display, UserPrefix \o Render(promptStyle, prompt))
     IN /\ history' = Append(history, [role |-> "user", text |-> prompt])
        /\ display' = d
        /\ origin' = Append(origin, <<>>)
        /\ index' = [index EXCEPT ![s] = CaptureIndex(d)]
        /\ ppc' = [ppc EXCEPT ![s] = "iter"]
        /\ textarea' = <<>>
        /\ next' = s
        /\ nstreams' = s
        /\ readers' = [readers EXCEPT ![s] = @ + 1]
        /\ overlap' = (overlap \/ ~Quiescent)
        /\ sawClosed' = FALSE
        /\ vpContent' = RenderWidth(vpWidth, Join(d))
        /\ vpYOffset' = GotoBottom(vpContent', vpHeight)
  /\ UNCHANGED << msgs, part, chunks, sent, status, typed, queue, procVars,
                  vpWidth, vpHeight, taWidth >>

\* an index shared by all closures: the one the latest keyEnter captured
MsgIndexShared(s) == index[next]

\* readPart, `i := index`: the index a streamMsg of stream s carries is the one
\* its own keyEnter captured
MsgIndex(s) == index[s]

\* an assignment in place of the +=
ExtendReplace(entry, p) == p

\* streamMsg: `m.display[msg.index] += msg.part`
Extend(entry, p) == entry \o p

\* streamMsg handler: create the entry when the index is one past the end,
\* extend the entry at the index, and return m.next as the command (a readPart
\* of the latest keyEnter starts).  An index beyond that is a slice index out
\* of range: the program panics.
StreamMsg(msg) ==
  /\ status = "running"
  /\ msg \in msgs
  /\ msgs' = msgs \ {msg}
  /\ IF msg.index > Len(display)
     THEN /\ status' = "crashed"
          /\ UNCHANGED << display, origin, readers, vpContent, vpYOffset >>
     ELSE LET d == IF msg.index = Len(display)
                   THEN Append(display, AssistantPrefix) ELSE display
              o == IF msg.index = Len(display)
                   THEN Append(origin, <<>>) ELSE origin
          IN /\ display' = [d EXCEPT ![msg.index + 1] = Extend(@, msg.part)]
             /\ origin' = [o EXCEPT ![msg.index + 1] = Append(@, <<msg.stream, msg.k>>)]
             /\ vpContent' = RenderWidth(vpWidth, Join(display'))
             /\ vpYOffset' = GotoBottom(vpContent', vpHeight)
             /\ readers' = IF next = 0 THEN readers
                           ELSE [readers EXCEPT ![next] = @ + 1]
             /\ UNCHANGED status
  /\ UNCHANGED << history, textarea, next, nstreams, index, ppc, part, chunks,
                  sent, overlap, sawClosed, typed, queue, procVars,
                  vpWidth, vpHeight, taWidth >>

\* Update, tea.WindowSizeMsg: windowSizeMsg sets the widths and the viewport
\* height, renders the transcript again when it is not empty, and goes to the
\* bottom
WindowSizeMsg(size) ==
  /\ status = "running"
  /\ scenario = "events"
  /\ vpWidth' = size.width
  /\ taWidth' = size.width
  /\ vpHeight' = size.height - TextareaHeight - LineCount(GAP)
  /\ vpContent' = IF Len(display) > 0
                   THEN RenderWidth(size.width, Join(display))
                   ELSE vpContent
  /\ vpYOffset' = GotoBottom(vpContent', vpHeight')
  /\ UNCHANGED << display, origin, history, textarea, next, nstreams, index,
                  readers, msgs, ppc, part, chunks, sent, status, overlap,
                  sawClosed, typed, queue, procVars >>

\* Update, tea.KeyMsg ctrl+u or ctrl+d: m.viewport.Update moves half a page up
\* or down, and m.textarea.Update deletes the text before the cursor (ctrl+u)
\* or the character under it (ctrl+d; the cursor is at the end)
ViewportKey(k) ==
  /\ status = "running"
  /\ scenario = "events"
  /\ LET half == vpHeight \div 2
         top == IF vpYOffset > half THEN vpYOffset - half ELSE 0
         max == MaxYOffset(vpContent, vpHeight)
         down == IF vpYOffset + half < max THEN vpYOffset + half ELSE max
     IN vpYOffset' = IF k = "ctrl+u" THEN top
                     ELSE IF vpYOffset >= max THEN vpYOffset ELSE down
  /\ textarea' = IF k = "ctrl+u" THEN <<>> ELSE textarea
  /\ UNCHANGED << display, origin, history, next, nstreams, index, readers,
                  msgs, ppc, part, chunks, sent, status, overlap, sawClosed,
                  typed, queue, procVars, vpWidth, vpHeight, vpContent, taWidth >>

\* Update, errMsg: model.errMsg returns the model as it is, and no command
ErrMsg(e) ==
  /\ status = "running"
  /\ scenario = "events"
  /\ errSeen' = TRUE
  /\ UNCHANGED << display, origin, history, textarea, next, nstreams, index,
                  readers, msgs, ppc, part, chunks, sent, status, overlap,
                  sawClosed, typed, queue, env, chat, err, scenario, uiVars >>

\* Update, tea.KeyEsc or tea.KeyCtrlC: keyEsc returns tea.Quit
KeyEsc ==
  /\ status = "running"
  /\ scenario = "events"
  /\ status' = "quit"
  /\ UNCHANGED << display, origin, history, textarea, next, nstreams, index,
                  readers, msgs, ppc, part, chunks, sent, overlap, sawClosed,
                  typed, queue, procVars, uiVars >>

\* ------------------------------------------------------------ producer
\* a loop without the nil check
IsNilUnchecked(c) == FALSE

\* `if chunk == nil { continue }`: the iterator yields a nil chunk with an error
IsNil(c) == c.kind \in { "nil", "err" }

\* chunk.Candidates[0].Content.Parts[0].Text is evaluated without a check: a
\* chunk with no candidate is an index out of range in the goroutine (and a
\* nil chunk would be a nil dereference)
Panics(c) == c.kind # "text"

\* a channel with room for one part
CapBuffered(s) == 1

\* `parts := make(chan string)`: the capacity of the channel of stream s
Cap(s) == 0

\* one iteration of the range loop of the producer goroutine of stream s: the
\* remote stream yields chunk c
Yield(s, c) ==
  /\ status = "running"
  /\ ppc[s] = "iter"
  /\ Yielded < ChunkBound
  /\ chunks' = [chunks EXCEPT ![s] = Append(@, c)]
  /\ IF IsNil(c)
     THEN \* continue; after an error the iterator returns
          /\ ppc' = [ppc EXCEPT ![s] = IF c.kind = "err" THEN "eof" ELSE "iter"]
          /\ UNCHANGED << part, status, queue >>
     ELSE IF Panics(c)
     THEN /\ ppc' = [ppc EXCEPT ![s] = "panic"]
          /\ status' = "crashed"
          /\ UNCHANGED << part, queue >>
     ELSE \* `parts <- part`: buffered when the channel has room, else blocks
          /\ part' = [part EXCEPT ![s] = c.text]
          /\ IF Len(queue[s]) < Cap(s)
             THEN /\ queue' = [queue EXCEPT ![s] = Append(@, c.text)]
                  /\ UNCHANGED ppc
             ELSE /\ ppc' = [ppc EXCEPT ![s] = "send"]
                  /\ UNCHANGED queue
          /\ UNCHANGED status
  /\ UNCHANGED << display, origin, history, textarea, next, nstreams, index,
                  readers, msgs, sent, overlap, sawClosed, typed, procVars, uiVars >>

\* the range loop ends (the remote stream is exhausted, or has failed):
\* close(parts)
Close(s) ==
  /\ status = "running"
  /\ ppc[s] \in { "iter", "eof" }
  /\ ppc' = [ppc EXCEPT ![s] = "done"]
  /\ UNCHANGED << display, origin, history, textarea, next, nstreams, index,
                  readers, msgs, part, chunks, sent, status, overlap, sawClosed, typed,
                  queue, procVars, uiVars >>

\* ------------------------------------------------------------ channel
\* `parts <- part` meets `p, ok := <-parts` of one readPart blocked on the
\* unbuffered channel: the producer goes on, readPart returns a streamMsg
Recv(s) ==
  /\ status = "running"
  /\ ppc[s] = "send" \/ queue[s] # <<>>
  /\ readers[s] > 0
  /\ LET p == IF queue[s] # <<>> THEN Head(queue[s]) ELSE part[s]
     IN /\ readers' = [readers EXCEPT ![s] = @ - 1]
        /\ sent' = [sent EXCEPT ![s] = Append(@, p)]
        /\ msgs' = msgs \cup { [index |-> MsgIndex(s), part |-> p,
                                stream |-> s, k |-> Len(sent[s]) + 1] }
        \* a blocked send goes on: into the buffer, or to this reader
        /\ queue' = [queue EXCEPT ![s] =
                       IF @ = <<>> THEN <<>>
                       ELSE IF ppc[s] = "send" THEN Append(Tail(@), part[s])
                       ELSE Tail(@)]
        /\ ppc' = [ppc EXCEPT ![s] = IF @ = "send" THEN "iter" ELSE @]
  /\ UNCHANGED << display, origin, history, textarea, next, nstreams, index,
                  part, chunks, status, overlap, sawClosed, typed, procVars, uiVars >>

\* `p, ok := <-parts` on the closed channel: readPart returns nil, which the
\* event loop drops
RecvClosed(s) ==
  /\ status = "running"
  /\ ppc[s] = "done"
  /\ queue[s] = <<>>
  /\ readers[s] > 0
  /\ readers' = [readers EXCEPT ![s] = @ - 1]
  /\ sawClosed' = (sawClosed \/ s = next)
  /\ UNCHANGED << display, origin, history, textarea, next, nstreams, index,
                  msgs, ppc, part, chunks, sent, status, overlap, typed,
                  queue, procVars, uiVars >>

\* ------------------------------------------------------------ specification
Next ==
  \/ \E logOk \in BOOLEAN : Main(logOk)
  \/ \E size \in Sizes : WindowSizeMsg(size)
  \/ \E k \in { "ctrl+u", "ctrl+d" } : ViewportKey(k)
  \/ ErrMsg(ErrText)
  \/ KeyEsc
  \/ \E p \in Prompts : KeyRunes(p)
  \/ KeyEnter
  \/ \E msg \in msgs : StreamMsg(msg)
  \/ \E s \in Streams, c \in Chunks : Yield(s, c)
  \/ \E s \in Streams : Close(s)
  \/ \E s \in Streams : Recv(s)
  \/ \E s \in Streams : RecvClosed(s)

Spec == Init /\ [][Next]_vars

\* the Go scheduler runs every runnable goroutine, the remote stream always
\* yields or ends, and the event loop handles every message sent to it; the
\* user's keys are under no obligation
FairSpec ==
  /\ Spec
  /\ \A s \in Streams : WF_vars(\E c \in Chunks : Yield(s, c))
  /\ \A s \in Streams : WF_vars(Close(s))
  /\ \A s \in Streams : WF_vars(Recv(s))
  /\ \A s \in Streams : WF_vars(RecvClosed(s))
  /\ WF_vars(\E msg \in msgs : StreamMsg(msg))

\* ------------------------------------------------------------ properties
\* the texts of the chunks that carry one, in order
NonNilTexts(cs) ==
  LET ts == SelectSeq(cs, LAMBDA c : c.kind = "text")
  IN [j \in 1..Len(ts) |-> ts[j].text]

\* the fragments of stream s the channel has delivered, concatenated
Delivered(s) == Concat(sent[s])

IsUserEntry(e) == IsPrefix(UserPrefix, e)
IsAssistantEntry(e) == IsPrefix(AssistantPrefix, e)

\* the transcript has an assistant entry at the index stream s captured
HasReply(s) ==
  /\ Started(s)
  /\ index[s] < Len(display)
  /\ IsAssistantEntry(display[index[s] + 1])

\* the entry at the index stream s captured
Reply(s) == display[index[s] + 1]

\* the assistant text shown for stream s: the reply without its prefix
AssistantText(s) ==
  IF HasReply(s)
  THEN SubSeq(Visible(Reply(s)), 3, Len(Visible(Reply(s))))
  ELSE <<>>

\* no keyEnter of the run happened while an earlier stream was unfinished,
\* and every stream has finished and been handled
RanAlone == ~overlap /\ Quiescent

C2_Original ==
  [][\A m \in msgs \ msgs' :
       \A s \in Streams : Started(s) => m.index >= index[s]]_vars

\* the numbers k of the fragments of stream s among the appends o, in order
Ks(o, s) ==
  LET os == SelectSeq(o, LAMBDA x : x[1] = s)
  IN [j \in 1..Len(os) |-> os[j][2]]

\* C3: the fragments of every stream are applied in emission order (the
\* k-th append of a stream is its k-th fragment), and the text of a reply
\* is a prefix of the concatenation of its stream's fragments.
C3_Original ==
  /\ \A i \in 1..Len(display) : \A s \in Streams :
       \A j \in 1..Len(Ks(origin[i], s)) : Ks(origin[i], s)[j] = j
  /\ \A s \in Streams :
       HasReply(s) => IsPrefix(Reply(s), AssistantPrefix \o Delivered(s))

\* the fragments appended to transcript entry i, as recorded at each append
Appended(i) == [j \in 1..Len(origin[i]) |-> sent[origin[i][j][1]][origin[i][j][2]]]

\* C4: an assistant entry belongs to the one stream that captured its index,
\* every fragment appended to it is of that stream, and it holds the prefix
\* followed by exactly those fragments.
C4_ReplyHoldsOwnFragmentsOnly ==
  \A i \in 1..Len(display) :
    IsAssistantEntry(display[i]) =>
      /\ \E s \in Streams : Started(s) /\ index[s] = i - 1
      /\ \A j \in 1..Len(origin[i]) : index[origin[i][j][1]] = i - 1
      /\ display[i] = AssistantPrefix \o Concat(Appended(i))

C4_Witness ==
  /\ nstreams = 3
  /\ HasReply(3)
  /\ \E i \in 1..Len(display) :
       /\ IsUserEntry(display[i])
       /\ \E j \in 1..Len(origin[i]) : origin[i][j][1] < 3

\* C5: at most one readPart command is outstanding.
C5_Original == Outstanding <= 1

\* C6: every producer started by a Submit eventually closes its channel and
\* terminates (or the process has ended).
C6_Original ==
  \A s \in Streams : (ppc[s] # "none") ~> (ppc[s] = "done" \/ status # "running")

\* C7: once a read of the active stream has returned no event, no read is
\* scheduled until the next Submit.
C7_Original ==
  [][(sawClosed /\ nstreams' = nstreams) =>
       \A s \in Streams : readers'[s] <= readers[s]]_vars

\* an assistant-role entry showing the error text
IsErrorEntry(e) == IsAssistantEntry(e) /\ Visible(e) = <<">", " ">> \o ErrText

\* C8: after a transport failure of a stream the supervisor is idle, the
\* process runs and the transcript has an assistant-role error entry.
C8_Original ==
  \A s \in Streams :
    (Len(chunks[s]) > 0 /\ chunks[s][Len(chunks[s])] = ErrChunk /\ Quiescent) =>
      /\ status # "crashed"
      /\ \E i \in 1..Len(display) : IsErrorEntry(display[i])

\* C9: a chunk without candidate content is dropped: the process runs and
\* the producer goes on with the next chunk.
C9_Original ==
  \A s \in Streams :
    (Len(chunks[s]) > 0 /\ chunks[s][Len(chunks[s])] = NoCandidates) =>
      status = "running" /\ ppc[s] = "iter"

\* the chunks of stream s are nil chunks and chunks with a text only
OnlyNilAndText(s) == \A j \in 1..Len(chunks[s]) : chunks[s][j].kind \in { "nil", "text" }

\* the fragments the producer of s has taken from its chunks: those delivered
\* and the one it is sending
Taken(s) == IF ppc[s] = "send" THEN Append(sent[s], part[s]) ELSE sent[s]

C11_BackPressure ==
  \A s \in Streams :
    /\ queue[s] = <<>>
    /\ Len(NonNilTexts(chunks[s])) <= Len(sent[s]) + 1
    /\ Len(NonNilTexts(chunks[s])) = Len(sent[s]) + 1 => ppc[s] = "send"

C11_Witness ==
  \E s \in Streams :
    /\ ppc[s] = "send"
    /\ readers[s] = 0
    /\ Len(sent[s]) >= 1
    /\ Len(NonNilTexts(chunks[s])) = Len(sent[s]) + 1

\* the steps of the event loop: a Submit starts a stream, a fragment-arrived
\* event takes a streamMsg and is handled without a failure, a Resize is a
\* windowSizeMsg
IsSubmit == nstreams' = nstreams + 1
IsFragment == (\E m \in msgs : msgs' = msgs \ {m}) /\ status' = "running"
IsResize == \E size \in Sizes : WindowSizeMsg(size)

\* the rendering of the transcript at the viewport width, as lines
Rendered == RenderWidth(vpWidth, Join(display))

\* the viewport shows the last lines of its content
AtBottom == vpYOffset = (IF Len(vpContent) > vpHeight THEN Len(vpContent) - vpHeight ELSE 0)

\* C12 (as amended): after every Submit, every fragment-arrived event and
\* every Resize of a non-empty transcript the viewport content is the
\* rendering, at the viewport width, of the transcript entries joined with
\* line separators; a Resize of an empty transcript leaves the content as it
\* was; after every Submit and every fragment-arrived event the viewport is
\* at the bottom.
C12_ContentIsRenderedTranscript ==
  [][/\ (IsSubmit \/ IsFragment) => (vpContent' = Rendered' /\ AtBottom')
     /\ IsResize => IF Len(display) > 0
                    THEN vpContent' = Rendered'
                    ELSE vpContent' = vpContent]_vars

\* C12 as stated: the content is the rendering after every Submit,
\* fragment-arrived event and Resize.
C12_Original ==
  [][(IsSubmit \/ IsFragment \/ IsResize) =>
       (vpContent' = Rendered' /\ ((IsSubmit \/ IsFragment) => AtBottom'))]_vars

C12_Witness ==
  /\ vpWidth \in { size.width : size \in Sizes }
  /\ \E i \in 1..Len(display) : IsAssistantEntry(display[i]) /\ Len(origin[i]) >= 1
  /\ Len(vpContent) > vpHeight
  /\ vpYOffset = Len(vpContent) - vpHeight
  /\ vpContent = Rendered
  /\ \A i \in 1..Len(display) :
       /\ vpContent[i].text = display[i]
       /\ vpContent[i].pad = vpWidth - Cells(display[i])

\* C13: with an empty GOOGLE_CLI the process never runs the event loop: it
\* exits with a non-zero code from the start-up, no chat is created, no
\* stream is started and nothing is put on the viewport.
C13_MissingKeyIsFatal ==
  env = <<>> =>
    /\ status \in { "init", "fatal" }
    /\ status = "fatal" => ExitCode(status) > 0
    /\ ~chat
    /\ nstreams = 0 /\ \A s \in Streams : ppc[s] = "none" /\ readers[s] = 0
    /\ display = <<>> /\ vpContent = <<>>

C13_Witness == env = <<>> /\ status = "fatal" /\ ExitCode(status) = 1 /\ ~chat

\* C14: no step changes the text of an entry a Submit created.
C14_Original ==
  [][\A i \in 1..Len(display) :
       IsUserEntry(display[i]) => display'[i] = display[i]]_vars

\* C15: the transcript never gets shorter, and every entry stays at its index
\* with its text a prefix of its text after the step.
C15_TranscriptAppendOnly ==
  [][/\ Len(display') >= Len(display)
     /\ \A i \in 1..Len(display) : IsPrefix(display[i], display'[i])]_vars

C15_Witness ==
  /\ Len(display) >= 3
  /\ \E i \in 1..Len(display) :
       /\ Len(origin[i]) >= 2
       /\ IsPrefix(AssistantPrefix \o sent[origin[i][1][1]][origin[i][1][2]], display[i])

\* C16: a Submit appends one user entry with the text of the input buffer to
\* the transcript and one user message to the history, captures the transcript
\* length after the append as the target index, starts one producer and one
\* read on a channel nothing was sent on, becomes the latest stream, and
\* empties the input buffer.
C16_SubmitEffect ==
  [][IsSubmit =>
       LET s == nstreams'
       IN /\ display' = Append(display, UserPrefix \o Render(promptStyle, textarea))
          /\ Visible(display'[Len(display')]) = <<"?", " ">> \o textarea
          /\ history' = Append(history, [role |-> "user", text |-> textarea])
          /\ index'[s] = Len(display')
          /\ ppc[s] = "none" /\ ppc'[s] = "iter"
          /\ \A r \in Streams \ {s} : ppc'[r] = ppc[r] /\ readers'[r] = readers[r]
          /\ readers[s] = 0 /\ readers'[s] = 1
          /\ sent'[s] = <<>> /\ queue'[s] = <<>> /\ chunks'[s] = <<>>
          /\ next' = s
          /\ textarea' = <<>>]_vars

C16_Witness ==
  /\ nstreams >= 2
  /\ overlap
  /\ textarea = <<>>
  /\ \E i \in 1..Len(display) : Visible(display[i]) = <<"?", " ">>
  /\ \E i \in 1..Len(display) : Visible(display[i]) = <<"?", " ", "2", "+", "2", "?">>
  /\ index[nstreams] = Len(display)
  /\ ppc[nstreams] = "iter"
  /\ readers[nstreams] = 1

\* C17: when the only stream in progress has completed with a reply, the
\* history ends with the user message of its prompt followed by the assistant
\* message of the reply.
C17_Original ==
  (RanAlone /\ nstreams > 0 /\ sent[nstreams] # <<>>) =>
    /\ Len(history) >= 2
    /\ history[Len(history) - 1].role = "user"
    /\ history[Len(history)] = [role |-> "model", text |-> Delivered(nstreams)]

\* C18: a windowSizeMsg leaves the transcript, the history and the streams
\* as they are, sets the widths and the viewport height from the size,
\* renders the transcript again when it is not empty, goes to the bottom, and
\* the same windowSizeMsg handled again would leave the content as it is.
C18_ResizeFrame ==
  [][\A size \in Sizes : WindowSizeMsg(size) =>
       /\ UNCHANGED << display, origin, history, textarea, next, nstreams,
                       index, readers, msgs, ppc, part, chunks, sent, queue,
                       status, err >>
       /\ vpWidth' = size.width /\ taWidth' = size.width
       /\ vpHeight' + TextareaHeight + LineCount(GAP) = size.height
       /\ Len(display) > 0 => vpContent' = Rendered'
       /\ Len(display) = 0 => vpContent' = vpContent
       /\ AtBottom'
       /\ (vpWidth = size.width /\ (Len(display) = 0 \/ vpContent = Rendered))
            => vpContent' = vpContent]_vars

C18_Witness ==
  /\ vpWidth \in { size.width : size \in Sizes }
  /\ taWidth = vpWidth
  /\ vpHeight \in { size.height - TextareaHeight - LineCount(GAP) : size \in Sizes }
  /\ Len(display) > 0
  /\ msgs = {}
  /\ vpContent = Rendered
  /\ Len(vpContent) > vpHeight
  /\ AtBottom

\* C19: an errMsg is recorded in m.err, the loop goes on, and the transcript,
\* the history and the streams are unchanged.
C19_Original ==
  [][ErrMsg(ErrText) =>
       /\ err' # "nil"
       /\ status' = "running"
       /\ UNCHANGED << display, history, next, readers, msgs, ppc >>]_vars

\* C20: the index of every streamMsg waiting for Update, and the index every
\* started stream captured, is at most the length of the transcript (the
\* write is in bounds once the entry at an index equal to the length is
\* created), and the captured indices increase strictly from one Submit to
\* the next.
C20_IndexInBounds ==
  /\ \A m \in msgs : m.index >= 1 /\ m.index <= Len(display) /\ m.index = index[m.stream]
  /\ \A s \in Streams : Started(s) => (index[s] >= 1 /\ index[s] <= Len(display))
  /\ \A s, r \in Streams : (Started(r) /\ s < r) => index[s] < index[r]

C20_Witness ==
  \E m \in msgs :
    /\ m.stream < nstreams
    /\ m.index < Len(display)
    /\ m.index < index[nstreams]
    /\ status = "running"

====
